---- MODULE Spec2Model ----
(***************************************************************************)
(* pyUAV2: the Environment facade over a PyFlyt Aviary session             *)
(* (src/pyuav2/environments.py) and the PerspectiveCamera over the same    *)
(* PyBullet client (src/pyuav2/rendering.py).                              *)
(*                                                                         *)
(* Vehicle indices are 0-based in the code; the sequence `drones` is       *)
(* 1-based, so vehicle idx is drones[idx + 1].                             *)
(***************************************************************************)
EXTENDS Integers, Sequences, FiniteSets, TLC

VARIABLES
    phase,    \* "new": no Environment yet; "failed": __init__ raised; "ready": constructed
    config,   \* the arguments of the most recent Environment.__init__ call
    drones,   \* self._env.drones: per vehicle its setpoint, state, mode and onboard frame
    bodies,   \* number of obstacle bodies registered in the session
    tick,     \* number of completed self._env.step() calls
    camera,   \* the PerspectiveCamera object (cached matrices), if constructed
    last      \* the most recent call: operation, arguments, outcome, return value, engine calls

vars == <<phase, config, drones, bodies, tick, camera, last>>

----------------------------------------------------------------------------
(* Bounds of the model *)

MaxDrones == 2

MaxTicks == 2

MaxObstacles == 1

----------------------------------------------------------------------------
(* Inputs the caller may pass *)

ControlModeInputs == {"positional", "velocity", "diagonal"}

DroneModelInputs == {"primitive_drone", "cf2x", "tuned-reference"}

ImageModeInputs == {"rgba", "depth", "bogus"}

\* Setpoint vectors as the caller passes them (float64 values, here integral).
\* 16777217 = 2^24 + 1 is not representable in 32-bit floating point.
SetpointInputs == {<<1, 1, 0, 1>>, <<16777217, 0, 0, 5>>}

SetpointBatches ==
    UNION {[1..n -> SetpointInputs] : n \in 0..(MaxDrones + 1)}

IndexInputs == (-1)..(MaxDrones + 1)

RowInputs == 0..MaxDrones

CameraOrigins == {<<-31, 17, 5>>}

----------------------------------------------------------------------------
(* Class constants *)

DRONE_MODELS == {"primitive_drone", "cf2x"}

CONTROL_MODES_swapped(m) ==
    CASE m = "positional" -> 6
      [] m = "velocity" -> 7

CONTROL_MODES(m) ==
    CASE m = "positional" -> 7
      [] m = "velocity" -> 6

CONTROL_MODES_keys == {"positional", "velocity"}

----------------------------------------------------------------------------
(* np.array(x, dtype=np.float32): round every element to the nearest       *)
(* 32-bit float (24-bit significand), ties to even.                        *)

RECURSIVE Quantum(_)
Quantum(a) == IF a < 2^24 THEN 1 ELSE 2 * Quantum(a \div 2)

RoundMagnitude(a) ==
    LET q   == Quantum(a)
        lo  == (a \div q) * q
        rem == a - lo
    IN  IF 2 * rem < q THEN lo
        ELSE IF 2 * rem > q THEN lo + q
        ELSE IF (lo \div q) % 2 = 0 THEN lo ELSE lo + q

Float32(x) == IF x < 0 THEN 0 - RoundMagnitude(0 - x) ELSE RoundMagnitude(x)

AsFloat32Array(v) == [k \in DOMAIN v |-> Float32(v[k])]

----------------------------------------------------------------------------
(* The engine session (PyFlyt Aviary), as far as this layer drives it *)

ZeroSetpoint == <<0, 0, 0, 0>>

NoFrame == -1

\* Aviary(start_pos, start_orn, ...): one vehicle per pose row, at rest,
\* setpoint zero, no actuation mode selected yet.
Aviary(rows, use_camera) ==
    [i \in 1..rows |->
        [setpoint |-> ZeroSetpoint,
         state    |-> [t |-> 0],
         mode     |-> 0,
         img      |-> IF use_camera THEN 0 ELSE NoFrame]]

\* Whether the engine accepts the pose matrices this layer hands over. This
\* layer passes an empty matrix through unchecked; what the engine does with
\* it is the engine's choice.
AviaryOutcomes(rows) == IF rows >= 1 THEN {"ok"} ELSE {"ok", "EngineError"}

\* self._env.set_mode(m): the mode is applied to every vehicle of the session.
Aviary_set_mode(ds, m) == [i \in DOMAIN ds |-> [ds[i] EXCEPT !.mode = m]]

\* self._env.set_all_setpoints(a): vehicle i takes row i of a.
Aviary_set_all_setpoints(ds, a) ==
    [i \in DOMAIN ds |-> [ds[i] EXCEPT !.setpoint = a[i]]]

\* self._env.set_setpoint(index, setpoint): python list indexing, a negative
\* index counts from the end of the list.
Aviary_set_setpoint(ds, index, sp) ==
    LET pos == IF index < 0 THEN Len(ds) + index + 1 ELSE index + 1
    IN  [ds EXCEPT ![pos].setpoint = sp]

AllStates(ds) == [i \in DOMAIN ds |-> ds[i].state]

AllSetpoints(ds) == [i \in DOMAIN ds |-> ds[i].setpoint]

\* self._env.step(): every vehicle's state is recomputed (the dynamics are
\* the engine's; the state is kept as the tick it belongs to), setpoints are
\* read and left in place; onboard views are rendered when the camera
\* option is on.
Aviary_step(ds, t, use_camera) ==
    [i \in DOMAIN ds |->
        [ds[i] EXCEPT !.state = [t |-> t + 1],
                      !.img = IF use_camera THEN t + 1 ELSE NoFrame]]

----------------------------------------------------------------------------
(* Records of a call *)

NoArg == <<>>

\* op, arg: the call and its arguments; result: "ok" or the exception raised;
\* ret: the value returned; calls: the engine calls the handler made, in
\* order; consumed: the setpoints the engine read, when it stepped.
Call(op, arg, result, ret, calls) ==
    [op |-> op, arg |-> arg, result |-> result, ret |-> ret, calls |-> calls,
     consumed |-> <<>>]

StepCall(op, ret, setpoints) ==
    [op |-> op, arg |-> NoArg, result |-> "ok", ret |-> ret, calls |-> <<"step">>,
     consumed |-> setpoints]

NoCamera == [exists |-> FALSE, view_matrix |-> <<>>, proj_matrix |-> <<>>]

NoConfig ==
    [num_drones |-> 0, pos_rows |-> 0, rot_rows |-> 0,
     drone_model |-> "primitive_drone", control_mode |-> "positional",
     use_camera |-> FALSE]

Init ==
    /\ phase = "new"
    /\ config = NoConfig
    /\ drones = <<>>
    /\ bodies = 0
    /\ tick = 0
    /\ camera = NoCamera
    /\ last = Call("none", NoArg, "ok", <<>>, <<>>)

----------------------------------------------------------------------------
(* Environment.__init__ *)

\* The three assertions, in order; "none" when all of them pass.
InitAssertion_no_mode_check(num_drones, pos_rows, rot_rows, drone_model, control_mode) ==
    IF drone_model \notin DRONE_MODELS THEN "drone_model"
    ELSE IF ~(num_drones = pos_rows /\ pos_rows = rot_rows) THEN "rows"
    ELSE "none"

InitAssertion_no_pos_check(num_drones, pos_rows, rot_rows, drone_model, control_mode) ==
    IF control_mode \notin CONTROL_MODES_keys THEN "control_mode"
    ELSE IF drone_model \notin DRONE_MODELS THEN "drone_model"
    ELSE IF ~(num_drones = rot_rows) THEN "rows"
    ELSE "none"

InitAssertion(num_drones, pos_rows, rot_rows, drone_model, control_mode) ==
    IF control_mode \notin CONTROL_MODES_keys THEN "control_mode"
    ELSE IF drone_model \notin DRONE_MODELS THEN "drone_model"
    ELSE IF ~(num_drones = pos_rows /\ pos_rows = rot_rows) THEN "rows"
    ELSE "none"

Environment_init(num_drones, pos_rows, rot_rows, drone_model, control_mode, use_camera) ==
    /\ phase \in {"new", "failed"}
    /\ config' = [num_drones |-> num_drones, pos_rows |-> pos_rows,
                  rot_rows |-> rot_rows, drone_model |-> drone_model,
                  control_mode |-> control_mode, use_camera |-> use_camera]
    /\ UNCHANGED <<bodies, tick, camera>>
    /\ IF InitAssertion(num_drones, pos_rows, rot_rows, drone_model, control_mode) # "none"
       THEN /\ phase' = "failed"
            /\ drones' = <<>>
            /\ last' = Call("__init__", NoArg, "AssertionError", <<>>, <<>>)
       ELSE \E outcome \in AviaryOutcomes(pos_rows) :
            IF outcome # "ok"
            THEN /\ phase' = "failed"
                 /\ drones' = <<>>
                 /\ last' = Call("__init__", NoArg, outcome, <<>>, <<"Aviary">>)
            ELSE IF control_mode \notin CONTROL_MODES_keys
            THEN \* self.CONTROL_MODES[control_mode] raises after the session exists
                 /\ phase' = "failed"
                 /\ drones' = Aviary(pos_rows, use_camera)
                 /\ last' = Call("__init__", NoArg, "KeyError", <<>>, <<"Aviary">>)
            ELSE /\ phase' = "ready"
                 /\ drones' = Aviary_set_mode(Aviary(pos_rows, use_camera),
                                              CONTROL_MODES(control_mode))
                 /\ last' = Call("__init__", NoArg, "ok", <<>>, <<"Aviary", "set_mode">>)

----------------------------------------------------------------------------
(* Environment.add_obstacle *)

add_obstacle(path_ok) ==
    /\ phase = "ready"
    /\ bodies < MaxObstacles
    /\ UNCHANGED <<phase, config, drones, tick, camera>>
    /\ IF path_ok
       THEN /\ bodies' = bodies + 1
            /\ last' = Call("add_obstacle", NoArg, "ok", <<>>,
                            <<"obj_visual", "obj_collision", "loadOBJ",
                              "register_all_new_bodies">>)
       ELSE /\ bodies' = bodies
            /\ last' = Call("add_obstacle", NoArg, "EngineError", <<>>, <<"obj_visual">>)

----------------------------------------------------------------------------
(* Environment.set_all_setpoints *)

set_all_setpoints_assert_at_least(setpoints, ds) == Len(setpoints) >= Len(ds)

set_all_setpoints_assert(setpoints, ds) == Len(setpoints) = Len(ds)

set_all_setpoints(setpoints) ==
    /\ phase = "ready"
    /\ UNCHANGED <<phase, config, bodies, tick, camera>>
    /\ IF set_all_setpoints_assert(setpoints, drones)
       THEN /\ drones' = Aviary_set_all_setpoints(drones,
                             [i \in DOMAIN setpoints |-> AsFloat32Array(setpoints[i])])
            /\ last' = Call("set_all_setpoints", setpoints, "ok", <<>>,
                            <<"set_all_setpoints">>)
       ELSE /\ drones' = drones
            /\ last' = Call("set_all_setpoints", setpoints, "AssertionError", <<>>, <<>>)

----------------------------------------------------------------------------
(* Environment.set_setpoint *)

set_setpoint_assert_no_lower(idx, ds) == idx < Len(ds)

set_setpoint_assert(idx, ds) == 0 <= idx /\ idx < Len(ds)

set_setpoint_submit_broadcast(ds, idx, setpoint) ==
    [i \in DOMAIN ds |-> [ds[i] EXCEPT !.setpoint = AsFloat32Array(setpoint)]]

set_setpoint_submit(ds, idx, setpoint) ==
    Aviary_set_setpoint(ds, idx, AsFloat32Array(setpoint))

set_setpoint(idx, setpoint) ==
    /\ phase = "ready"
    /\ UNCHANGED <<phase, config, bodies, tick, camera>>
    /\ IF set_setpoint_assert(idx, drones)
       THEN /\ drones' = set_setpoint_submit(drones, idx, setpoint)
            /\ last' = Call("set_setpoint", <<idx, setpoint>>, "ok", <<>>,
                            <<"set_setpoint">>)
       ELSE /\ drones' = drones
            /\ last' = Call("set_setpoint", <<idx, setpoint>>, "AssertionError", <<>>, <<>>)

----------------------------------------------------------------------------
(* Environment.get_states and Environment.step *)

get_states_stepping ==
    /\ phase = "ready"
    /\ tick < MaxTicks
    /\ drones' = Aviary_step(drones, tick, config.use_camera)
    /\ tick' = tick + 1
    /\ last' = StepCall("get_states", AllStates(drones'), AllSetpoints(drones))
    /\ UNCHANGED <<phase, config, bodies, camera>>

get_states ==
    /\ phase = "ready"
    /\ last' = Call("get_states", NoArg, "ok", AllStates(drones), <<>>)
    /\ UNCHANGED <<phase, config, drones, bodies, tick, camera>>

step_clearing ==
    /\ phase = "ready"
    /\ tick < MaxTicks
    /\ drones' = Aviary_set_all_setpoints(
                     Aviary_step(drones, tick, config.use_camera),
                     [i \in DOMAIN drones |-> ZeroSetpoint])
    /\ tick' = tick + 1
    /\ last' = StepCall("step", AllStates(drones'), AllSetpoints(drones))
    /\ UNCHANGED <<phase, config, bodies, camera>>

step ==
    /\ phase = "ready"
    /\ tick < MaxTicks
    /\ drones' = Aviary_step(drones, tick, config.use_camera)
    /\ tick' = tick + 1
    /\ last' = StepCall("step", AllStates(drones'), AllSetpoints(drones))
    /\ UNCHANGED <<phase, config, bodies, camera>>

----------------------------------------------------------------------------
(* Environment.get_camera_images *)

\* drone.rgbaImg / drone.depthImg: the frame of the vehicle's last onboard
\* render. Without the camera option the engine never rendered one, and
\* whether the attribute read then raises is the engine's choice.
FrameReadOutcomes(ds, mode) ==
    IF \A i \in DOMAIN ds : ds[i].img # NoFrame THEN {"ok"} ELSE {"ok", "EngineError"}

\* The loop of get_camera_images: the mode is looked at once per vehicle,
\* inside the loop body.
get_camera_images(mode) ==
    /\ phase = "ready"
    /\ UNCHANGED <<phase, config, drones, bodies, tick, camera>>
    /\ IF Len(drones) = 0
       THEN last' = Call("get_camera_images", <<mode>>, "ok", <<>>, <<>>)
       ELSE IF mode \in {"rgba", "depth"}
       THEN \E outcome \in FrameReadOutcomes(drones, mode) :
            IF outcome = "ok"
            THEN last' = Call("get_camera_images", <<mode>>, "ok",
                              [i \in DOMAIN drones |-> <<mode, drones[i].img>>], <<>>)
            ELSE last' = Call("get_camera_images", <<mode>>, outcome, <<>>, <<>>)
       ELSE last' = Call("get_camera_images", <<mode>>, "Exception", <<>>, <<>>)

----------------------------------------------------------------------------
(* PerspectiveCamera *)

CameraLookat == <<-19, 8, 4>>

PerspectiveCamera_init(origin) ==
    /\ phase = "ready"
    /\ camera' = [exists      |-> TRUE,
                  view_matrix |-> <<origin, CameraLookat, <<0, 0, 1>>>>,
                  proj_matrix |-> <<45, <<640, 480>>, <<1, 10>>, 300>>]
    /\ last' = Call("PerspectiveCamera.__init__", <<origin>>, "ok", <<>>,
                    <<"computeViewMatrix", "computeProjectionMatrixFOV">>)
    /\ UNCHANGED <<phase, config, drones, bodies, tick>>

\* get_image: the frame is requested from the engine first, the mode is
\* looked at afterwards.
get_image(mode) ==
    /\ camera.exists
    /\ UNCHANGED <<phase, config, drones, bodies, tick, camera>>
    /\ IF mode = "rgba"
       THEN last' = Call("get_image", <<mode>>, "ok",
                         <<[channels |-> 4, view |-> camera.view_matrix,
                            scene |-> <<tick, bodies>>]>>, <<"getCameraImage">>)
       ELSE IF mode = "depth"
       THEN last' = Call("get_image", <<mode>>, "ok",
                         <<[channels |-> 1, view |-> camera.view_matrix,
                            scene |-> <<tick, bodies>>]>>, <<"getCameraImage">>)
       ELSE last' = Call("get_image", <<mode>>, "Exception", <<>>, <<"getCameraImage">>)

----------------------------------------------------------------------------
Next ==
    \/ \E n \in RowInputs, p \in RowInputs, r \in RowInputs,
          dm \in DroneModelInputs, cm \in ControlModeInputs, uc \in BOOLEAN :
            Environment_init(n, p, r, dm, cm, uc)
    \/ \E ok \in BOOLEAN : add_obstacle(ok)
    \/ \E a \in SetpointBatches : set_all_setpoints(a)
    \/ \E idx \in IndexInputs, v \in SetpointInputs : set_setpoint(idx, v)
    \/ get_states
    \/ step
    \/ \E m \in ImageModeInputs : get_camera_images(m)
    \/ \E o \in CameraOrigins : PerspectiveCamera_init(o)
    \/ \E m \in ImageModeInputs : get_image(m)

Spec == Init /\ [][Next]_vars

----------------------------------------------------------------------------
(* Properties *)

Range(q) == {q[k] : k \in DOMAIN q}

\* The arguments of the most recent __init__ call are a valid configuration.
ConfigValid ==
    /\ config.control_mode \in {"positional", "velocity"}
    /\ config.drone_model \in {"primitive_drone", "cf2x"}
    /\ config.num_drones = config.pos_rows
    /\ config.num_drones = config.rot_rows

\* C1: construction with an unrecognized control mode, an unrecognized
\* vehicle model, or num_drones different from the row count of the position
\* or the orientation matrix fails, and no session exists and no engine call
\* has been made when the failure is reported.
C1_InvalidConstructionFailsBeforeEngine ==
    (last.op = "__init__" /\ ~ConfigValid) =>
        /\ phase = "failed"
        /\ last.result = "AssertionError"
        /\ last.calls = <<>>
        /\ drones = <<>>

C1_Witness ==
    /\ last.op = "__init__"
    /\ phase = "failed"
    /\ config.control_mode = "positional"
    /\ config.drone_model = "cf2x"
    /\ config.num_drones = 2
    /\ config.pos_rows = 1
    /\ config.rot_rows = 2

\* C2: for N >= 1 with N position rows, N orientation rows, a valid control
\* mode and model, construction succeeds, the session holds N vehicles in
\* every state afterwards, and get_states() returns N entries.
C2_VehicleCountFixed ==
    /\ (last.op = "__init__" /\ ConfigValid /\ config.num_drones >= 1) =>
            (phase = "ready" /\ last.result = "ok")
    /\ (phase = "ready" /\ config.num_drones >= 1) =>
            Len(drones) = config.num_drones
    /\ (last.op = "get_states" /\ config.num_drones >= 1) =>
            (last.result = "ok" /\ Len(last.ret) = config.num_drones)

C2_Witness ==
    /\ last.op = "get_states"
    /\ config.num_drones = 2
    /\ Len(last.ret) = 2
    /\ tick >= 1
    /\ bodies >= 1
    /\ \E i \in DOMAIN drones : drones[i].setpoint # ZeroSetpoint

\* C3: set_all_setpoints with a sequence whose length differs from the
\* vehicle count fails, and every vehicle's live setpoint (and the rest of
\* the session) is the same after the failed call as before it.
C3_BadBatchLengthRejected ==
    [][ (last'.op = "set_all_setpoints" /\ Len(last'.arg) # Len(drones)) =>
            /\ last'.result = "AssertionError"
            /\ last'.calls = <<>>
            /\ drones' = drones
            /\ UNCHANGED <<tick, bodies, phase>> ]_vars

C3_Witness ==
    /\ last.op = "set_all_setpoints"
    /\ last.result = "AssertionError"
    /\ Len(drones) = 2
    /\ Len(last.arg) = 1
    /\ drones[1].setpoint # ZeroSetpoint
    /\ drones[1].setpoint # AsFloat32Array(last.arg[1])

\* The frame of a set_setpoint(idx, v) call that wrote `written` to vehicle idx.
SetSetpointFrame(idx, written) ==
    /\ last'.result = "ok"
    /\ Len(drones') = Len(drones)
    /\ drones'[idx + 1].setpoint = written
    /\ drones'[idx + 1].state = drones[idx + 1].state
    /\ drones'[idx + 1].mode = drones[idx + 1].mode
    /\ \A j \in DOMAIN drones : j # idx + 1 => drones'[j] = drones[j]
    /\ UNCHANGED <<tick, bodies, phase, config>>

InRangeSetSetpoint ==
    /\ last'.op = "set_setpoint"
    /\ 0 <= last'.arg[1]
    /\ last'.arg[1] < Len(drones)

\* C4 as stated: set_setpoint(idx, v) with 0 <= idx < N overwrites the live
\* setpoint of vehicle idx with v itself and leaves every other vehicle's
\* setpoint, the states, the count and the mode unchanged.
C4_Original_SetpointIsExactlyV ==
    [][ InRangeSetSetpoint => SetSetpointFrame(last'.arg[1], last'.arg[2]) ]_vars

\* C4 (amended): set_setpoint(idx, v) with 0 <= idx < N overwrites the live
\* setpoint of vehicle idx with v rounded elementwise to 32-bit floating
\* point, and leaves every other vehicle's setpoint, the vehicle states, the
\* vehicle count and the control mode unchanged.
C4_SetSetpointWritesFloat32OfV ==
    [][ InRangeSetSetpoint =>
            SetSetpointFrame(last'.arg[1],
                [k \in DOMAIN last'.arg[2] |-> Float32(last'.arg[2][k])]) ]_vars

C4_Witness ==
    /\ last.op = "set_setpoint"
    /\ last.result = "ok"
    /\ last.arg[1] = 0
    /\ Len(drones) = 2
    /\ drones[1].setpoint = <<16777216, 0, 0, 5>>
    /\ drones[2].setpoint = <<1, 1, 0, 1>>
    /\ tick >= 1

\* C5: set_setpoint(idx, v) with idx outside [0, N) fails and leaves every
\* vehicle's live setpoint and state as before.
C5_BadIndexRejected ==
    [][ (last'.op = "set_setpoint"
            /\ (last'.arg[1] < 0 \/ last'.arg[1] >= Len(drones))) =>
            /\ last'.result = "AssertionError"
            /\ last'.calls = <<>>
            /\ drones' = drones
            /\ UNCHANGED <<tick, bodies, phase>> ]_vars

C5_Witness ==
    /\ last.op = "set_setpoint"
    /\ last.result = "AssertionError"
    /\ last.arg[1] = -1
    /\ Len(drones) = 2
    /\ drones[2].setpoint # ZeroSetpoint
    /\ drones[2].setpoint # AsFloat32Array(last.arg[2])

\* C6: step() does not clear or reset setpoints. Setpoints are zero after
\* construction, a vehicle's live setpoint changes only in a successful
\* set_all_setpoints or set_setpoint call, every step leaves all of them in
\* place, and the engine consumes exactly the live values.
C6_SetpointsPersistAcrossSteps ==
    [][ /\ (last'.op = "step") =>
                /\ AllSetpoints(drones') = AllSetpoints(drones)
                /\ last'.consumed = AllSetpoints(drones)
        /\ (last'.op = "__init__" /\ phase' = "ready") =>
                \A i \in DOMAIN drones' : drones'[i].setpoint = <<0, 0, 0, 0>>
        /\ (last'.op # "__init__") =>
                \A i \in DOMAIN drones :
                    drones'[i].setpoint # drones[i].setpoint =>
                        /\ last'.op \in {"set_all_setpoints", "set_setpoint"}
                        /\ last'.result = "ok" ]_vars

C6_Witness ==
    /\ last.op = "step"
    /\ tick >= 2
    /\ Len(drones) = 2
    /\ last.consumed = <<<<1, 1, 0, 1>>, <<16777216, 0, 0, 5>>>>
    /\ AllSetpoints(drones) = last.consumed

\* C7: get_states() changes nothing (states, setpoints, simulated time) and
\* returns the current state collection; that collection changes only in a
\* step, which returns it, so every get_states() until the next step returns
\* what the most recent step returned.
C7_GetStatesPure ==
    [][ /\ (last'.op = "get_states") =>
                /\ last'.result = "ok"
                /\ last'.ret = AllStates(drones)
                /\ last'.calls = <<>>
                /\ UNCHANGED <<phase, config, drones, bodies, tick, camera>>
        /\ (last'.op = "step") => last'.ret = AllStates(drones')
        /\ (AllStates(drones') # AllStates(drones)) =>
                last'.op \in {"step", "__init__"} ]_vars

C7_Witness ==
    /\ last.op = "get_states"
    /\ tick >= 1
    /\ Len(last.ret) = 2
    /\ last.ret[1].t = tick
    /\ \E i \in DOMAIN drones : drones[i].setpoint # ZeroSetpoint

C9_BadModeRejectedWithoutRender ==
    (last.op = "get_image" /\ last.arg[1] \notin {"rgba", "depth"}) =>
        (last.result = "Exception" /\ last.calls = <<>>)

\* C10: the actuation mode is selected exactly once, at successful
\* construction, as the engine-native identifier of the declared control
\* mode ("positional" -> 7, "velocity" -> 6); every vehicle holds that value
\* in every state afterwards and no later call selects a mode again.
C10_ModeFixedAtConstruction ==
    /\ phase = "ready" =>
            /\ config.control_mode \in {"positional", "velocity"}
            /\ \A i \in DOMAIN drones :
                    drones[i].mode = IF config.control_mode = "positional" THEN 7 ELSE 6
    /\ (last.op = "__init__" /\ last.result = "ok") =>
            Cardinality({k \in DOMAIN last.calls : last.calls[k] = "set_mode"}) = 1
    /\ (last.op # "__init__") => "set_mode" \notin Range(last.calls)

C10_Witness ==
    /\ phase = "ready"
    /\ config.control_mode = "velocity"
    /\ Len(drones) = 2
    /\ drones[2].mode = 6
    /\ tick >= 1
    /\ bodies >= 1
    /\ last.op = "get_camera_images"

====
